---- MODULE Spec2Model ----
(***************************************************************************)
(* A model of compare_structures (compare_structures_py), the recursive    *)
(* structural differ with field exclusion, type groups and order-          *)
(* insensitive list matching.                                              *)
(*                                                                         *)
(* Values are tagged tuples <<tag, payload>>, the tag being Python's type  *)
(* name.  A str is a tuple of one-character strings, so that strip,        *)
(* isdigit, int() and str() are computed and not assumed.  A float m/10^e  *)
(* is <<m, e>>.  A dict is the tuple of its <<key, value>> items in        *)
(* insertion order.  A path string is the tuple of its "."-separated       *)
(* parts, a part being <<name, indices>>: "rows[0].link" is                *)
(* << <<"rows", <<0>>>>, <<"link", <<>>>> >>, and the index -1 stands for  *)
(* the wildcard "[*]".  Field names hold no ".", "[" or "'" characters;    *)
(* the empty name is allowed.                                              *)
(***************************************************************************)
EXTENDS Integers, Sequences, FiniteSets, TLC

VARIABLES
    origin_arg,      \* the caller's origin value
    current_arg,     \* the caller's current value
    path_arg,        \* the caller's path argument
    flags,           \* check_value, check_missing, check_redundant, check_type
    exclude_arg,     \* the caller's exclude set, or NoArg
    config_arg,      \* the caller's deep_diff_contrast_config, or NoArg
    pc,              \* "call" before the call, then "returned" or "raised"
    origin_copy,     \* the callee's deep copy of origin (line 698)
    current_copy,    \* the callee's deep copy of current (line 699)
    eff_exclude,     \* the callee's exclude_fields after line 690
    eff_config,      \* the callee's deep_diff_contrast_config after line 691
    returned         \* the list of difference records handed back

vars == <<origin_arg, current_arg, path_arg, flags, exclude_arg, config_arg,
          pc, origin_copy, current_copy, eff_exclude, eff_config, returned>>

---------------------------------------------------------------------------
(* Values *)

VNone == <<"NoneType", 0>>
VBool(b) == <<"bool", b>>
VInt(n) == <<"int", n>>
VFloat(m, e) == <<"float", <<m, e>>>>
VStr(cs) == <<"str", cs>>
VList(es) == <<"list", es>>
VDict(kvs) == <<"dict", kvs>>

type(v) == v[1]

\* isinstance(v, (dict, list))
IsContainer(v) == type(v) \in {"dict", "list"}

\* isinstance(v, int): bool is a subclass of int
IsInstInt(v) == type(v) \in {"int", "bool"}

\* isinstance(v, (int, float))
IsInstNum(v) == type(v) \in {"int", "bool", "float"}

\* key in d
HasKey(d, k) == \E i \in 1..Len(d[2]) : d[2][i][1] = k

\* d[key]
Get(d, k) == d[2][CHOOSE i \in 1..Len(d[2]) : d[2][i][1] = k][2]

Min(S) == CHOOSE x \in S : \A y \in S : x <= y

RECURSIVE Pow10(_)
Pow10(e) == IF e = 0 THEN 1 ELSE 10 * Pow10(e - 1)

\* the number a bool, int or float stands for, as <<m, e>> = m / 10^e
NumVal(v) ==
    CASE type(v) = "bool" -> IF v[2] THEN <<1, 0>> ELSE <<0, 0>>
      [] type(v) = "int" -> <<v[2], 0>>
      [] type(v) = "float" -> v[2]

NumEq(a, b) == a[1] * Pow10(b[2]) = b[1] * Pow10(a[2])

\* a == b of Python, where at least one side is a scalar
PyEq(a, b) ==
    IF IsInstNum(a) /\ IsInstNum(b) THEN NumEq(NumVal(a), NumVal(b))
    ELSE IF type(a) = "str" /\ type(b) = "str" THEN a[2] = b[2]
    ELSE type(a) = "NoneType" /\ type(b) = "NoneType"

---------------------------------------------------------------------------
(* Strings and conversions *)

Digits == <<"0", "1", "2", "3", "4", "5", "6", "7", "8", "9">>

IsDigitCh(ch) == \E i \in 1..10 : Digits[i] = ch

DigitVal(ch) == (CHOOSE i \in 1..10 : Digits[i] = ch) - 1

\* str.isdigit()
isdigit(s) == Len(s) > 0 /\ \A i \in 1..Len(s) : IsDigitCh(s[i])

RECURSIVE LStrip(_)
LStrip(s) == IF Len(s) > 0 /\ s[1] = " " THEN LStrip(Tail(s)) ELSE s

RECURSIVE RStrip(_)
RStrip(s) ==
    IF Len(s) > 0 /\ s[Len(s)] = " " THEN RStrip(SubSeq(s, 1, Len(s) - 1)) ELSE s

\* str.strip()
strip(s) == RStrip(LStrip(s))

RECURSIVE ParseDigits(_)
ParseDigits(s) ==
    IF Len(s) = 0 THEN 0
    ELSE 10 * ParseDigits(SubSeq(s, 1, Len(s) - 1)) + DigitVal(s[Len(s)])

AllDigits(s) == \A i \in 1..Len(s) : IsDigitCh(s[i])

\* the sign and the rest of a literal t that has no blanks around it
SignOf(t) ==
    IF Len(t) > 0 /\ t[1] = "-" THEN <<-1, Tail(t)>>
    ELSE IF Len(t) > 0 /\ t[1] = "+" THEN <<1, Tail(t)>>
    ELSE <<1, t>>

\* a numeric literal without its blanks: <<sign, rest>>
Signed(s) == SignOf(strip(s))

IntOfSigned(sg) ==
    IF isdigit(sg[2]) THEN <<TRUE, sg[1] * ParseDigits(sg[2])>> ELSE <<FALSE, 0>>

\* int(s) for a str: <<TRUE, n>>, or <<FALSE, 0>> for ValueError
IntOfStr(s) == IntOfSigned(Signed(s))

\* the float written as sign, integer part ip, "." and fraction fp
FloatSplit(sign, ip, fp) ==
    IF AllDigits(ip) /\ AllDigits(fp) /\ Len(ip) + Len(fp) > 0
    THEN <<TRUE, <<sign * ParseDigits(ip \o fp), Len(fp)>>>>
    ELSE <<FALSE, <<0, 0>>>>

\* the float written as sign and b, dots being the positions of "." in b
FloatLit(sign, b, dots) ==
    IF dots = {} THEN
        IF isdigit(b) THEN <<TRUE, <<sign * ParseDigits(b), 0>>>>
        ELSE <<FALSE, <<0, 0>>>>
    ELSE IF Cardinality(dots) > 1 THEN <<FALSE, <<0, 0>>>>
    ELSE FloatSplit(sign, SubSeq(b, 1, Min(dots) - 1),
                    SubSeq(b, Min(dots) + 1, Len(b)))

FloatOfSigned(sg) ==
    FloatLit(sg[1], sg[2], {i \in 1..Len(sg[2]) : sg[2][i] = "."})

\* float(s) for a str: <<TRUE, <<m, e>>>>, or <<FALSE, <<0, 0>>>> for ValueError
FloatOfStr(s) == FloatOfSigned(Signed(s))

RECURSIVE NatDigits(_)
NatDigits(n) ==
    IF n < 10 THEN <<Digits[n + 1]>>
    ELSE NatDigits(n \div 10) \o <<Digits[(n % 10) + 1]>>

Abs(n) == IF n < 0 THEN -n ELSE n

\* str(n) for an int
StrOfInt(n) == IF n < 0 THEN <<"-">> \o NatDigits(-n) ELSE NatDigits(n)

RECURSIVE Reduce(_)
Reduce(f) ==
    IF f[2] > 0 /\ f[1] % 10 = 0 THEN Reduce(<<f[1] \div 10, f[2] - 1>>) ELSE f

RECURSIVE PadLeft(_, _)
PadLeft(s, n) == IF Len(s) < n THEN PadLeft(<<"0">> \o s, n) ELSE s

\* the positional notation of the float m/10^e in lowest terms
StrOfReduced(m, e) ==
    (IF m < 0 THEN <<"-">> ELSE <<>>)
        \o NatDigits(Abs(m) \div Pow10(e))
        \o <<".">>
        \o (IF e = 0 THEN <<"0">> ELSE PadLeft(NatDigits(Abs(m) % Pow10(e)), e))

StrOfPair(r) == StrOfReduced(r[1], r[2])

\* str(x) for a float m/10^e
StrOfFloat(f) == StrOfPair(Reduce(f))

\* str(v) for a scalar of a type group
PyStr(v) ==
    CASE type(v) = "str" -> v[2]
      [] type(v) = "bool" ->
            IF v[2] THEN <<"T", "r", "u", "e">> ELSE <<"F", "a", "l", "s", "e">>
      [] type(v) = "int" -> StrOfInt(v[2])
      [] type(v) = "float" -> StrOfFloat(v[2])

\* int(v): <<TRUE, n>>, or <<FALSE, 0>> for ValueError
PyInt(v) ==
    CASE type(v) = "str" -> IntOfStr(v[2])
      [] type(v) = "bool" -> <<TRUE, IF v[2] THEN 1 ELSE 0>>
      [] type(v) = "int" -> <<TRUE, v[2]>>
      [] type(v) = "float" ->
            <<TRUE, (IF v[2][1] < 0 THEN -1 ELSE 1)
                      * (Abs(v[2][1]) \div Pow10(v[2][2]))>>

\* float(v): <<TRUE, <<m, e>>>>, or <<FALSE, <<0, 0>>>> for ValueError
PyFloat(v) ==
    CASE type(v) = "str" -> FloatOfStr(v[2])
      [] OTHER -> <<TRUE, NumVal(v)>>

---------------------------------------------------------------------------
(* Options, paths and records *)

NoArg == <<"none">>

\* exclude_fields or {"go_article_service"} (line 690); a set is falsy when empty
DefaultExclude == <<"set", {<< <<"go_article_service", <<>>>> >>}>>

EffExclude(ex) == IF ex = NoArg \/ ex[2] = {} THEN DefaultExclude ELSE ex

\* deep_diff_contrast_config or {"ignore_order": True} (lines 691-696).  A config
\* is <<"dict", io, groups>>: io is "unset", "True" or "False"; groups is the
\* list under "ignore_type_in_groups", <<>> when the key is absent or empty.
DefaultConfig == <<"dict", "True", <<>>>>

EffConfig(c) ==
    IF c = NoArg \/ c = <<"dict", "unset", <<>>>> THEN DefaultConfig ELSE c

\* config.get("ignore_order", True)
IgnoreOrder(c) == c[2] # "False"

\* config.get("ignore_type_in_groups", [])
TypeGroups(c) == c[3]

\* the path string "": one empty part
RootPath == << <<"", <<>>>> >>

\* not path
PathIsEmpty(path) == path = RootPath

\* _format_path(f"{path}.{key}" if path else key); the pattern ['<digits>'] of
\* _format_path occurs in no path built from the field names modelled
JoinKey(path, key) ==
    IF PathIsEmpty(path) THEN << <<key, <<>>>> >>
    ELSE Append(path, <<key, <<>>>>)

\* f"{path}[{i}]"
IndexPath(path, i) ==
    [path EXCEPT ![Len(path)] = <<@[1], Append(@[2], i)>>]

Rec(kind, path, od, cd) == [kind |-> kind, path |-> path, od |-> od, cd |-> cd]

NA == <<"-">>

Ok(diffs) == [err |-> FALSE, diffs |-> diffs]

\* raise ValueError (line 707)
Raise == [err |-> TRUE, diffs |-> <<>>]

\* differences += r, r being the outcome of a nested call
Extend(differences, r) == IF r.err THEN r ELSE Ok(differences \o r.diffs)

---------------------------------------------------------------------------
(* Formatter *)

_truncate(s, max_len) ==
    IF Len(s) > max_len THEN SubSeq(s, 1, max_len) \o <<".", ".", ".">> ELSE s

_type_detail(obj) ==
    CASE type(obj) = "NoneType" -> <<"null">>
      [] type(obj) = "bool" -> <<"bool">>
      [] type(obj) \in {"int", "float"} -> obj
      [] type(obj) = "str" ->
            IF Len(obj[2]) > 0 THEN <<"str", _truncate(obj[2], 50)>>
            ELSE <<"str(empty)">>
      [] type(obj) = "list" -> <<"list", Len(obj[2])>>
      [] type(obj) = "dict" -> <<"dict", Len(obj[2])>>

---------------------------------------------------------------------------
(* Path matcher *)

\* one pass of the loop of lines 468-483 over a compared part
PartMatches(part, clean_part) ==
    IF Len(part[2]) > 0 /\ part[2][Len(part[2])] = -1
    THEN clean_part = <<part[1], SubSeq(part[2], 1, Len(part[2]) - 1)>>
    ELSE part = clean_part

FieldMatches(clean_parts, field_parts) ==
    /\ Len(field_parts) >= Len(clean_parts)
    /\ \A i \in 1..Len(clean_parts) : PartMatches(field_parts[i], clean_parts[i])

\* exclude_fields is the set itself
_should_exclude(clean_path, exclude_set) ==
    \E field \in exclude_set : FieldMatches(clean_path, field)

---------------------------------------------------------------------------
(* Equivalence engine *)

InSameGroup(a, b, groups) ==
    \E g \in 1..Len(groups) : type(a) \in groups[g] /\ type(b) \in groups[g]

\* an _is_same_type that never consults the type groups
SameTagOnly(origin_val, current_val, config) == type(origin_val) = type(current_val)

_is_same_type(origin_val, current_val, config) ==
    \/ InSameGroup(origin_val, current_val, TypeGroups(config))
    \/ type(origin_val) = type(current_val)

EmptyStr == VStr(<<>>)

\* r is a conversion that did not raise, to a number equal to b
ConvNumEq(r, b) == r[1] /\ NumEq(r[2], b)

\* r is a conversion that did not raise, to the int n
ConvIntEq(r, n) == r[1] /\ r[2] = n

\* _is_equivalent_value that finds no two values equivalent
NeverEquivalent(origin_val, current_val, config) == FALSE

_is_equivalent_value(origin_val, current_val, config) ==
    LET o == origin_val
        c == current_val
    IN IF Len(TypeGroups(config)) = 0 THEN FALSE
       ELSE IF ~InSameGroup(o, c, TypeGroups(config)) THEN FALSE
       ELSE IF \/ PyEq(o, EmptyStr) /\ PyEq(c, VInt(0))
               \/ PyEq(o, VInt(0)) /\ PyEq(c, EmptyStr) THEN TRUE
       ELSE IF type(o) = "str" /\ isdigit(o[2]) /\ IsInstNum(c)
            THEN NumEq(<<ParseDigits(o[2]), 0>>, NumVal(c))
       ELSE IF type(c) = "str" /\ isdigit(c[2]) /\ IsInstNum(o)
            THEN NumEq(<<ParseDigits(c[2]), 0>>, NumVal(o))
       ELSE IF type(o) = "str" /\ IsInstNum(c) /\ ConvNumEq(FloatOfStr(o[2]), NumVal(c))
            THEN TRUE
       ELSE IF type(c) = "str" /\ IsInstNum(o) /\ ConvNumEq(FloatOfStr(c[2]), NumVal(o))
            THEN TRUE
       ELSE IF type(o) = "float" /\ IsInstInt(c) THEN NumEq(NumVal(o), NumVal(c))
       ELSE IF IsInstInt(o) /\ type(c) = "float" THEN NumEq(NumVal(o), NumVal(c))
       ELSE FALSE

\* the conversion tried in the first group that holds both types; a ValueError
\* moves on to the next group, where the same conversion fails again
_type_conversion_judgment(old_value, new_value, config) ==
    LET groups == TypeGroups(config)
        o == old_value
        n == new_value
    IN IF Len(groups) = 0 THEN FALSE
       ELSE IF type(o) = type(n) THEN FALSE
       ELSE IF ~InSameGroup(o, n, groups) THEN FALSE
       ELSE CASE type(o) = "str" -> o[2] = PyStr(n)
              [] type(o) = "int" -> ConvIntEq(PyInt(n), o[2])
              [] type(o) = "float" -> ConvNumEq(PyFloat(n), o[2])
              [] type(n) = "str" -> PyStr(o) = n[2]
              [] type(n) = "int" -> ConvIntEq(PyInt(o), n[2])
              [] type(n) = "float" -> ConvNumEq(PyFloat(o), n[2])
              [] OTHER -> FALSE

_special_value_check(origin_val, current_val, path, differences) ==
    IF type(origin_val) = "str" /\ type(current_val) = "str" THEN
        IF strip(origin_val[2]) # <<>> /\ strip(current_val[2]) = <<>>
        THEN Append(differences,
                    Rec("ValueChanged", path, origin_val, <<"empty warning">>))
        ELSE differences
    ELSE IF IsInstInt(origin_val) /\ IsInstInt(current_val) THEN
        IF /\ ~PyEq(origin_val, current_val)
           /\ NumVal(current_val)[1] <= 0
        THEN Append(differences,
                    Rec("ValueChanged", path, origin_val, <<"non-positive warning">>))
        ELSE differences
    ELSE differences

\* an _items_match that binds two items of one type without looking inside
ItemsMatchShallow(origin_item, current_item, check_type, config) ==
    type(origin_item) = type(current_item)

RECURSIVE _items_match(_, _, _, _)
_items_match(origin_item, current_item, check_type, config) ==
    IF check_type /\ ~_is_same_type(origin_item, current_item, config) THEN FALSE
    ELSE IF ~IsContainer(origin_item) /\ ~IsContainer(current_item) THEN
        \/ /\ Len(TypeGroups(config)) > 0
           /\ _type_conversion_judgment(origin_item, current_item, config)
        \/ PyEq(origin_item, current_item)
    ELSE IF type(origin_item) = "dict" /\ type(current_item) = "dict" THEN
        /\ Len(origin_item[2]) = Len(current_item[2])
        /\ \A k \in 1..Len(origin_item[2]) :
              /\ HasKey(current_item, origin_item[2][k][1])
              /\ _items_match(origin_item[2][k][2],
                              Get(current_item, origin_item[2][k][1]),
                              check_type, config)
    ELSE IF type(origin_item) = "list" /\ type(current_item) = "list" THEN
        /\ Len(origin_item[2]) = Len(current_item[2])
        /\ \A k \in 1..Len(origin_item[2]) :
              _items_match(origin_item[2][k], current_item[2][k], check_type, config)
    ELSE FALSE

---------------------------------------------------------------------------
(* Structural differ.  opt holds check_value, check_missing,               *)
(* check_redundant, check_type, exclude_fields and config as passed.       *)

Opt(cv, cm, cr, ct, ex, cfg) ==
    [check_value |-> cv, check_missing |-> cm, check_redundant |-> cr,
     check_type |-> ct, exclude_fields |-> ex, config |-> cfg]

\* the arguments of the nested calls of lines 283-294 and 362-373
NestedListOpt(check_type, exclude_fields, config) ==
    Opt(TRUE, TRUE, FALSE, check_type, exclude_fields, config)

\* lines 313-334 and 376-397: two list items that are not both containers
ScalarItemStep(origin_item, current_item, elem_path, check_type, config, differences) ==
    IF _is_equivalent_value(origin_item, current_item, config) THEN differences
    ELSE IF check_type /\ ~_is_same_type(origin_item, current_item, config)
    THEN Append(differences,
                Rec("TypeConflict", elem_path,
                    _type_detail(origin_item), _type_detail(current_item)))
    ELSE IF ~PyEq(origin_item, current_item) THEN
        IF /\ Len(TypeGroups(config)) > 0
           /\ _type_conversion_judgment(origin_item, current_item, config)
        THEN differences
        ELSE Append(differences,
                    Rec("ValueChanged", elem_path, origin_item, current_item))
    ELSE differences

RECURSIVE compare_structures(_, _, _, _)
RECURSIVE DictOriginLoop(_, _, _, _, _, _)
RECURSIVE DictRedundantLoop(_, _, _, _, _, _)
RECURSIVE PositionalLoop(_, _, _, _, _, _)
RECURSIVE MatchLoop(_, _, _, _, _, _)
RECURSIVE MatchLoopNoSkip(_, _, _, _, _, _)
RECURSIVE MatchLoopLastFit(_, _, _, _, _, _)
RECURSIVE RemovedLoop(_, _, _, _, _, _)
RECURSIVE AddedLoop(_, _, _, _, _, _)
RECURSIVE MatchedLoop(_, _, _, _, _, _, _)
RECURSIVE OrderedLoop(_, _, _, _, _, _)

\* lines 71-132: the loop body for one key of origin
OriginKeyStep(origin_dict, current_dict, path, opt, key, differences) ==
    LET current_path == JoinKey(path, key)
        origin_val == Get(origin_dict, key)
        current_val == Get(current_dict, key)
    IN IF _should_exclude(current_path, opt.exclude_fields[2]) THEN Ok(differences)
       ELSE IF ~HasKey(current_dict, key) THEN
           IF opt.check_missing
           THEN Ok(Append(differences,
                          Rec("MissingField", current_path,
                              _type_detail(origin_val), NA)))
           ELSE Ok(differences)
       ELSE IF IsContainer(origin_val)
       THEN Extend(differences,
                   compare_structures(origin_val, current_val, current_path, opt))
       ELSE IF opt.check_value THEN
           IF _is_equivalent_value(origin_val, current_val, opt.config)
           THEN Ok(differences)
           ELSE IF opt.check_type
                   /\ ~_is_same_type(origin_val, current_val, opt.config)
           THEN Ok(Append(differences,
                          Rec("TypeConflict", current_path,
                              _type_detail(origin_val), _type_detail(current_val))))
           ELSE IF ~PyEq(origin_val, current_val)
           THEN Ok(Append(differences,
                          Rec("ValueChanged", current_path, origin_val, current_val)))
           ELSE Ok(differences)
       ELSE Ok(_special_value_check(origin_val, current_val, current_path, differences))

\* lines 70-132: for key in origin_dict, from the k-th key on; so_far is the
\* outcome of the keys before it, an exception ends the loop
DictOriginLoop(origin_dict, current_dict, path, opt, k, so_far) ==
    IF so_far.err \/ k > Len(origin_dict[2]) THEN so_far
    ELSE DictOriginLoop(origin_dict, current_dict, path, opt, k + 1,
                        OriginKeyStep(origin_dict, current_dict, path, opt,
                                      origin_dict[2][k][1], so_far.diffs))

\* lines 135-142: for key in current_dict, from the k-th key on; not reached
\* when the loop over origin_dict raised
DictRedundantLoop(origin_dict, current_dict, path, opt, k, so_far) ==
    IF so_far.err \/ k > Len(current_dict[2]) THEN so_far
    ELSE LET key == current_dict[2][k][1]
             current_path == JoinKey(path, key)
         IN DictRedundantLoop(origin_dict, current_dict, path, opt, k + 1,
                IF /\ ~HasKey(origin_dict, key)
                   /\ ~_should_exclude(current_path, opt.exclude_fields[2])
                THEN Ok(Append(so_far.diffs,
                               Rec("RedundantField", current_path, NA,
                                   _type_detail(current_dict[2][k][2]))))
                ELSE so_far)

\* a _compare_dicts without the loop of lines 133-142
CompareDictsOriginOnly(origin_dict, current_dict, path, opt, differences) ==
    DictOriginLoop(origin_dict, current_dict, path, opt, 1, Ok(differences))

_compare_dicts(origin_dict, current_dict, path, opt, differences) ==
    IF opt.check_redundant
    THEN DictRedundantLoop(origin_dict, current_dict, path, opt, 1,
             DictOriginLoop(origin_dict, current_dict, path, opt, 1, Ok(differences)))
    ELSE DictOriginLoop(origin_dict, current_dict, path, opt, 1, Ok(differences))

\* lines 175-204: for i in range(min(len, len)), from list position k on;
\* so_far is the outcome of the positions before it
PositionalLoop(origin_list, current_list, path, opt, k, so_far) ==
    IF so_far.err \/ k > Len(origin_list[2]) \/ k > Len(current_list[2]) THEN so_far
    ELSE LET elem_path == IndexPath(path, k - 1)
             o == origin_list[2][k]
             c == current_list[2][k]
             d == _special_value_check(o, c, elem_path, so_far.diffs)
         IN PositionalLoop(origin_list, current_list, path, opt, k + 1,
                IF IsContainer(o)
                THEN Extend(so_far.diffs, compare_structures(o, c, elem_path, opt))
                ELSE IF opt.check_type /\ ~_is_same_type(o, c, opt.config)
                THEN Ok(Append(d, Rec("TypeConflict", elem_path,
                                      _type_detail(o), _type_detail(c))))
                ELSE Ok(d))

\* MatchLoop without the test "if j in current_matched: continue"
MatchLoopNoSkip(origin_list, current_list, check_type, config, i, origin_matched) ==
    IF i > Len(origin_list[2]) THEN origin_matched
    ELSE LET free == {j \in 1..Len(current_list[2]) :
                         _items_match(origin_list[2][i], current_list[2][j],
                                      check_type, config)}
             j == IF free = {} THEN 0 ELSE Min(free)
         IN MatchLoopNoSkip(origin_list, current_list, check_type, config, i + 1,
                            Append(origin_matched, j))

\* a MatchLoop that binds the last unmatched current item that matches
MatchLoopLastFit(origin_list, current_list, check_type, config, i, origin_matched) ==
    IF i > Len(origin_list[2]) THEN origin_matched
    ELSE LET current_matched ==
                 {origin_matched[k] : k \in 1..Len(origin_matched)} \ {0}
             free == {j \in 1..Len(current_list[2]) :
                         /\ j \notin current_matched
                         /\ _items_match(origin_list[2][i], current_list[2][j],
                                         check_type, config)}
             j == IF free = {} THEN 0 ELSE CHOOSE x \in free : \A y \in free : y <= x
         IN MatchLoopLastFit(origin_list, current_list, check_type, config, i + 1,
                             Append(origin_matched, j))

\* lines 239-247: origin_matched after the origin items before position i;
\* origin_matched[i] is the matched position in current, 0 when there is none
MatchLoop(origin_list, current_list, check_type, config, i, origin_matched) ==
    IF i > Len(origin_list[2]) THEN origin_matched
    ELSE LET current_matched ==
                 {origin_matched[k] : k \in 1..Len(origin_matched)} \ {0}
             free == {j \in 1..Len(current_list[2]) :
                         /\ j \notin current_matched
                         /\ _items_match(origin_list[2][i], current_list[2][j],
                                         check_type, config)}
             j == IF free = {} THEN 0 ELSE Min(free)
         IN MatchLoop(origin_list, current_list, check_type, config, i + 1,
                      Append(origin_matched, j))

\* lines 250-258
RemovedLoop(origin_list, path, exclude_fields, origin_matched, i, differences) ==
    IF i > Len(origin_list[2]) THEN differences
    ELSE LET elem_path == IndexPath(path, i - 1)
             more == IF /\ origin_matched[i] = 0
                        /\ ~_should_exclude(elem_path, exclude_fields[2])
                     THEN Append(differences,
                                 Rec("ListItemRemoved", elem_path, NA, NA))
                     ELSE differences
         IN RemovedLoop(origin_list, path, exclude_fields, origin_matched, i + 1, more)

\* an order-insensitive comparison that reports no added element
AddedLoopOff(current_list, path, exclude_fields, origin_matched, j, differences) ==
    differences

\* lines 260-268
AddedLoop(current_list, path, exclude_fields, origin_matched, j, differences) ==
    IF j > Len(current_list[2]) THEN differences
    ELSE LET elem_path == IndexPath(path, j - 1)
             current_matched ==
                 {origin_matched[k] : k \in 1..Len(origin_matched)} \ {0}
             more == IF /\ j \notin current_matched
                        /\ ~_should_exclude(elem_path, exclude_fields[2])
                     THEN Append(differences,
                                 Rec("ListItemAdded", elem_path, NA, NA))
                     ELSE differences
         IN AddedLoop(current_list, path, exclude_fields, origin_matched, j + 1, more)

\* lines 272-334: the matched pairs in the order of their origin index;
\* so_far is the outcome of the pairs before position i
MatchedLoop(origin_list, current_list, path, opt, origin_matched, i, so_far) ==
    IF so_far.err \/ i > Len(origin_list[2]) THEN so_far
    ELSE LET elem_path == IndexPath(path, i - 1)
             origin_item == origin_list[2][i]
             current_item == current_list[2][origin_matched[i]]
         IN MatchedLoop(origin_list, current_list, path, opt, origin_matched, i + 1,
                IF origin_matched[i] = 0 THEN so_far
                ELSE IF _should_exclude(elem_path, opt.exclude_fields[2])
                THEN so_far
                ELSE IF IsContainer(origin_item) /\ IsContainer(current_item)
                THEN Extend(so_far.diffs,
                            compare_structures(origin_item, current_item, elem_path,
                                NestedListOpt(opt.check_type, opt.exclude_fields,
                                              opt.config)))
                ELSE IF IsContainer(origin_item) \/ IsContainer(current_item)
                THEN IF opt.check_type
                     THEN Ok(Append(so_far.diffs,
                                    Rec("TypeConflict", elem_path,
                                        _type_detail(origin_item),
                                        _type_detail(current_item))))
                     ELSE so_far
                ELSE Ok(ScalarItemStep(origin_item, current_item, elem_path,
                                       opt.check_type, opt.config, so_far.diffs)))

\* lines 337-397: for i in range(max_len), from list position k on; so_far
\* is the outcome of the positions before it
OrderedLoop(origin_list, current_list, path, opt, k, so_far) ==
    IF so_far.err \/ (k > Len(origin_list[2]) /\ k > Len(current_list[2]))
    THEN so_far
    ELSE LET elem_path == IndexPath(path, k - 1)
             origin_item == origin_list[2][k]
             current_item == current_list[2][k]
         IN OrderedLoop(origin_list, current_list, path, opt, k + 1,
                IF _should_exclude(elem_path, opt.exclude_fields[2])
                THEN so_far
                ELSE IF k > Len(origin_list[2])
                THEN Ok(Append(so_far.diffs,
                               Rec("ListItemAdded", elem_path, NA, NA)))
                ELSE IF k > Len(current_list[2])
                THEN Ok(Append(so_far.diffs,
                               Rec("ListItemRemoved", elem_path, NA, NA)))
                ELSE IF IsContainer(origin_item) /\ IsContainer(current_item)
                THEN Extend(so_far.diffs,
                            compare_structures(origin_item, current_item, elem_path,
                                NestedListOpt(opt.check_type, opt.exclude_fields,
                                              opt.config)))
                ELSE Ok(ScalarItemStep(origin_item, current_item, elem_path,
                                       opt.check_type, opt.config, so_far.diffs)))

\* lines 229-334: the branch taken when ignore_order is true
UnorderedCompare(origin_list, current_list, path, opt, differences) ==
    LET origin_matched == MatchLoop(origin_list, current_list, opt.check_type,
                                    opt.config, 1, <<>>)
        d1 == RemovedLoop(origin_list, path, opt.exclude_fields, origin_matched,
                          1, differences)
        d2 == AddedLoop(current_list, path, opt.exclude_fields, origin_matched, 1, d1)
    IN MatchedLoop(origin_list, current_list, path, opt, origin_matched, 1, Ok(d2))

\* _compare_lists_native that compares by index whatever ignore_order says
OrderedOnly(origin_list, current_list, path, opt, differences) ==
    OrderedLoop(origin_list, current_list, path, opt, 1, Ok(differences))

\* _compare_lists_native that matches the items whatever ignore_order says
UnorderedOnly(origin_list, current_list, path, opt, differences) ==
    UnorderedCompare(origin_list, current_list, path, opt, differences)

_compare_lists_native(origin_list, current_list, path, opt, differences) ==
    IF IgnoreOrder(opt.config)
    THEN UnorderedCompare(origin_list, current_list, path, opt, differences)
    ELSE OrderedLoop(origin_list, current_list, path, opt, 1, Ok(differences))

_compare_lists(origin_list, current_list, path, opt, differences) ==
    IF opt.check_value
    THEN _compare_lists_native(origin_list, current_list, path, opt, differences)
    ELSE PositionalLoop(origin_list, current_list, path, opt, 1, Ok(differences))

\* lines 689-760; opt holds the arguments as the caller passed them
compare_structures(origin_data, current_data, path, opt) ==
    LET exclude_fields == EffExclude(opt.exclude_fields)
        deep_diff_contrast_config == EffConfig(opt.config)
        o == [opt EXCEPT !.exclude_fields = exclude_fields,
                         !.config = deep_diff_contrast_config]
    IN IF /\ PathIsEmpty(path)
          /\ (~IsContainer(origin_data) \/ ~IsContainer(current_data))
       THEN Raise
       ELSE IF type(origin_data) = "NoneType" /\ type(current_data) = "NoneType"
       THEN Ok(<<>>)
       ELSE IF type(origin_data) = "NoneType" THEN
           IF o.check_missing
           THEN Ok(<<Rec("MissingField", path, <<"null">>, NA)>>)
           ELSE Ok(<<>>)
       ELSE IF type(current_data) = "NoneType" THEN
           IF o.check_redundant
           THEN Ok(<<Rec("RedundantField", path, NA, <<"null">>)>>)
           ELSE Ok(<<>>)
       ELSE IF type(origin_data) = "dict" /\ type(current_data) = "dict"
       THEN _compare_dicts(origin_data, current_data, path, o, <<>>)
       ELSE IF type(origin_data) = "list" /\ type(current_data) = "list"
       THEN _compare_lists(origin_data, current_data, path, o, <<>>)
       ELSE IF o.check_type
               /\ ~_is_same_type(origin_data, current_data, deep_diff_contrast_config)
       THEN Ok(<<Rec("TypeConflict", path,
                     _type_detail(origin_data), _type_detail(current_data))>>)
       ELSE Ok(<<>>)

---------------------------------------------------------------------------
(* The call: the caller's arguments, the callee's own data, the outcome *)

\* copy.deepcopy: an equal value that shares nothing with its source
deepcopy(x) == x

CallOpt ==
    Opt(flags.check_value, flags.check_missing, flags.check_redundant,
        flags.check_type, exclude_arg, config_arg)

\* the outcome of compare_structures on the caller's arguments
Outcome == compare_structures(origin_arg, current_arg, path_arg, CallOpt)

\* lines 689-699: the callee's locals; no statement writes to an argument object
Locals ==
    /\ eff_exclude' = EffExclude(exclude_arg)
    /\ eff_config' = EffConfig(config_arg)
    /\ origin_copy' = deepcopy(origin_arg)
    /\ current_copy' = deepcopy(current_arg)

\* a callee that fills the defaults into the caller's own objects, as
\* config.setdefault("ignore_order", True) would, instead of rebinding its locals
CompareReturnsInPlace ==
    /\ pc = "call"
    /\ ~Outcome.err
    /\ Locals
    /\ returned' = Outcome.diffs
    /\ pc' = "returned"
    /\ config_arg' = IF config_arg # NoArg /\ config_arg[2] = "unset"
                      THEN <<"dict", "True", config_arg[3]>>
                      ELSE config_arg
    /\ UNCHANGED <<origin_arg, current_arg, path_arg, flags, exclude_arg>>

\* compare_structures returns its list of differences
CompareReturns ==
    /\ pc = "call"
    /\ ~Outcome.err
    /\ Locals
    /\ returned' = Outcome.diffs
    /\ pc' = "returned"
    /\ UNCHANGED <<origin_arg, current_arg, path_arg, flags, exclude_arg, config_arg>>

\* compare_structures raises ValueError: nothing is returned
CompareRaises ==
    /\ pc = "call"
    /\ Outcome.err
    /\ Locals
    /\ returned' = <<>>
    /\ pc' = "raised"
    /\ UNCHANGED <<origin_arg, current_arg, path_arg, flags, exclude_arg, config_arg>>

Next == CompareReturns \/ CompareRaises

\* a call about to be made at the outermost level (path ""), on one of the
\* pairs of values and one of the settings given
InitOn(Pairs, Flags, Excludes, Configs) ==
    /\ \E p \in Pairs : origin_arg = p[1] /\ current_arg = p[2]
    /\ path_arg = RootPath
    /\ flags \in Flags
    /\ exclude_arg \in Excludes
    /\ config_arg \in Configs
    /\ pc = "call"
    /\ origin_copy = NoArg
    /\ current_copy = NoArg
    /\ eff_exclude = NoArg
    /\ eff_config = NoArg
    /\ returned = <<>>

---------------------------------------------------------------------------
(* Input universes *)

MaxLen == 2

AllFlags ==
    [check_value : BOOLEAN, check_missing : BOOLEAN,
     check_redundant : BOOLEAN, check_type : BOOLEAN]

DefaultFlags ==
    [check_value |-> TRUE, check_missing |-> TRUE,
     check_redundant |-> FALSE, check_type |-> TRUE]

Pat1(a) == << <<a, <<>>>> >>
PatIdx(a, i) == << <<a, <<i>>>> >>
Pat2(a, b) == << <<a, <<>>>>, <<b, <<>>>> >>

StrInt == {"str", "int"}

Cfg(io, groups) == <<"dict", io, groups>>

\* ignore_order given or left out, with and without a type group
SomeConfigs ==
    {NoArg, Cfg("True", <<>>), Cfg("False", <<>>),
     Cfg("unset", <<StrInt>>), Cfg("False", <<StrInt>>),
     Cfg("False", <<{"int", "str", "float", "bool"}>>)}

SeqsUpTo(S, n) == UNION {[1..k -> S] : k \in 0..n}

\* the dicts with the keys ks, in that order, and values of S
DictsOn(ks, S) ==
    {VDict([i \in 1..Len(ks) |-> <<ks[i], f[i]>>]) : f \in [1..Len(ks) -> S]}

ListsOf(S, n) == {VList(es) : es \in SeqsUpTo(S, n)}

---------------------------------------------------------------------------
(* Identity: both arguments are the same value *)

\* scalars of every tag; 1, True and "1" meet under Python's == or a type group
IdScalars ==
    {VNone, VBool(TRUE), VInt(0), VInt(1), VStr(<<>>), VStr(<<"1">>)}

IdLeafContainers ==
    ListsOf(IdScalars, MaxLen)
        \cup DictsOn(<<"a">>, IdScalars)
        \cup DictsOn(<<"b", "a">>, {VNone, VInt(1), VStr(<<"1">>)})

\* roots: scalars (refused), flat containers, containers one level down, also
\* under the empty field name, and lists of dicts
IdValues ==
    IdScalars
        \cup IdLeafContainers
        \cup UNION {DictsOn(<<k>>, IdLeafContainers) : k \in {"l", ""}}
        \cup ListsOf(DictsOn(<<"a">>, {VNone, VInt(1), VStr(<<"1">>)}), MaxLen)

IdExcludes ==
    {NoArg, <<"set", {Pat1("a")}>>, <<"set", {PatIdx("l", 0)}>>}

InitIdentity ==
    InitOn({<<x, x>> : x \in IdValues}, AllFlags, IdExcludes, SomeConfigs)

SpecIdentity == InitIdentity /\ [][Next]_vars

Done == pc \in {"returned", "raised"}

\* C1: comparing a dict or list with itself returns no record, whatever the
\* flags, the list mode, the type groups and the exclude set
C1_Identity ==
    (Done /\ origin_arg = current_arg /\ IsContainer(origin_arg))
        => (pc = "returned" /\ returned = <<>>)

\* a list with a repeated element and a dict holding None, compared with
\* themselves in the order-insensitive mode
C1_Witness ==
    /\ pc = "returned"
    /\ origin_arg = current_arg
    /\ origin_arg = VList(<<VDict(<< <<"a", VNone>> >>), VDict(<< <<"a", VNone>> >>)>>)
    /\ flags.check_value
    /\ IgnoreOrder(eff_config)
    /\ returned = <<>>

---------------------------------------------------------------------------
(* Missing and redundant fields: maps, maps under a field, maps in lists *)

\* the paths of the records of one kind
PathsOfKind(kind, diffs) ==
    {diffs[i].path : i \in {j \in 1..Len(diffs) : diffs[j].kind = kind}}

KindsOf(diffs) == {diffs[i].kind : i \in 1..Len(diffs)}

One == VInt(1)

FieldMaps ==
    {VDict(<<>>), VDict(<< <<"a", One>> >>), VDict(<< <<"a", One>>, <<"b", One>> >>)}

\* a root map with a scalar, a null, a map or a list of maps under its field,
\* and a scalar root, which is refused
FieldValues ==
    {One}
        \cup FieldMaps
        \cup DictsOn(<<"m">>, {VNone, One} \cup FieldMaps)
        \cup DictsOn(<<"l">>, ListsOf(FieldMaps, MaxLen))

FieldConfigs == {NoArg, Cfg("False", <<>>)}

InitFields ==
    InitOn(FieldValues \X FieldValues, AllFlags, {NoArg}, FieldConfigs)

SpecFields == InitFields /\ [][Next]_vars

\* compare_structures(current, origin) of the same call, with check_redundant
SwappedRedundant ==
    compare_structures(current_arg, origin_arg, path_arg,
                       Opt(flags.check_value, flags.check_missing, TRUE,
                           flags.check_type, exclude_arg, config_arg))

\* C2: the paths of the MissingField records of compare(X, Y) with
\* check_missing are the paths of the RedundantField records of compare(Y, X)
\* with check_redundant, in both list modes and for maps inside list elements
C2_MissingRedundantSymmetry ==
    (pc = "returned" /\ flags.check_missing /\ ~SwappedRedundant.err)
        => PathsOfKind("MissingField", returned)
               = PathsOfKind("RedundantField", SwappedRedundant.diffs)

\* C11: with check_missing false the result holds no MissingField record at
\* any depth, also for keys missing from maps that are elements of lists, in
\* both list modes
C11_CheckMissingGates ==
    (pc = "returned" /\ ~flags.check_missing)
        => "MissingField" \notin KindsOf(returned)

---------------------------------------------------------------------------
(* Root maps: fields a, b, c in several orders, on one side or on both *)

MapFieldValues == {One, VNone, VDict(<<>>)}

\* maps of one to three fields; b before a and c before both, so that the
\* order of current's keys is not the order of origin's
MapValues ==
    {One, VDict(<<>>)}
        \cup DictsOn(<<"a">>, MapFieldValues) \cup DictsOn(<<"b">>, MapFieldValues)
        \cup DictsOn(<<"a", "b">>, MapFieldValues)
        \cup DictsOn(<<"b", "a">>, MapFieldValues)
        \cup DictsOn(<<"c", "b", "a">>, {One, VNone})

MapExcludes == {NoArg, <<"set", {Pat1("b")}>>, <<"set", {Pat2("b", "x")}>>}

InitMaps == InitOn(MapValues \X MapValues, AllFlags, MapExcludes, {NoArg})

SpecMaps == InitMaps /\ [][Next]_vars

MapsCompared == pc = "returned" /\ type(origin_arg) = "dict"

KeysOf(d) == {d[2][i][1] : i \in 1..Len(d[2])}

\* lines 135-138: the keys of current absent from origin and not excluded
RedundantKeys ==
    {k \in KeysOf(current_arg) :
        /\ ~HasKey(origin_arg, k)
        /\ ~_should_exclude(JoinKey(path_arg, k), eff_exclude[2])}

\* the positions in the result of the records at or below the root field k
RecordsUnder(k) == {i \in 1..Len(returned) : returned[i].path[1][1] = k}

\* C12: with check_redundant each non-excluded key of current absent from
\* origin has exactly one record, a RedundantField at the key's path, placed
\* after every record of origin's keys; without check_redundant it has none
C12_RedundantKeys ==
    MapsCompared =>
        \A k \in RedundantKeys :
            IF flags.check_redundant
            THEN /\ Cardinality(RecordsUnder(k)) = 1
                 /\ \A i \in RecordsUnder(k) :
                       /\ returned[i].kind = "RedundantField"
                       /\ returned[i].path = Pat1(k)
                       /\ \A j \in 1..Len(returned) :
                             HasKey(origin_arg, returned[j].path[1][1]) => j < i
            ELSE RecordsUnder(k) = {}

\* {a: 1} against {b: 1, a: None}: the record of a, then the RedundantField of b
C12_Witness ==
    /\ MapsCompared
    /\ origin_arg = VDict(<< <<"a", One>> >>)
    /\ current_arg = VDict(<< <<"b", One>>, <<"a", VNone>> >>)
    /\ flags.check_redundant
    /\ Len(returned) = 2
    /\ returned[1].path = Pat1("a")
    /\ returned[2].kind = "RedundantField"
    /\ returned[2].path = Pat1("b")

---------------------------------------------------------------------------
(* Exclusion: a map whose field rows is a list of maps *)

StrA == VStr(<<"a">>)
StrB == VStr(<<"b">>)

\* rows elements: a link and a title, the title possibly empty
RowTitles == {StrA, EmptyStr}

RowElems ==
    {VDict(<< <<"link", l>>, <<"title", t>> >>) : l \in {StrA, StrB}, t \in RowTitles}

\* the root maps with a list under rows, and a scalar root, which is refused
RowsValues == {One} \cup DictsOn(<<"rows">>, ListsOf(RowElems, MaxLen))

RowsLink == <<"set", {<< <<"rows", <<-1>>>>, <<"link", <<>>>> >>}>>

RowsExcludes ==
    {NoArg, RowsLink,
     <<"set", {PatIdx("rows", 0)}>>,
     <<"set", {PatIdx("rows", -1)}>>,
     <<"set", {<< <<"rows", <<1>>>>, <<"title", <<>>>> >>}>>}

InitRows ==
    InitOn(RowsValues \X RowsValues, AllFlags, RowsExcludes, FieldConfigs)

SpecRows == InitRows /\ [][Next]_vars

\* the part q of a path is the part p of a pattern, or an element below it
\* when p is the last part of the pattern; "[*]" stands for every index
PartInside(q, p, last) ==
    /\ q[1] = p[1]
    /\ IF last THEN Len(q[2]) >= Len(p[2]) ELSE Len(q[2]) = Len(p[2])
    /\ \A k \in 1..Len(p[2]) : p[2][k] = -1 \/ p[2][k] = q[2][k]

\* the path is the location the pattern denotes, or lies below it
Inside(path, pattern) ==
    /\ Len(path) >= Len(pattern)
    /\ \A i \in 1..Len(pattern) :
          PartInside(path[i], pattern[i], i = Len(pattern))

\* C3: no record has a path at or below a location denoted by an exclude
\* pattern, whatever the flags and the list mode
C3_ExclusionAbsorbing ==
    (pc = "returned" /\ exclude_arg # NoArg)
        => \A i \in 1..Len(returned) :
              \A pattern \in eff_exclude[2] : ~Inside(returned[i].path, pattern)

\* the elements of the list under rows
Rows(v) == Get(v, "rows")[2]

RowFieldPath(i, name) == << <<"rows", <<i>>>>, <<name, <<>>>> >>

\* both lists have an element at index i, and the two titles differ
TitleDiffers(i) ==
    /\ i < Len(Rows(origin_arg)) /\ i < Len(Rows(current_arg))
    /\ ~PyEq(Get(Rows(origin_arg)[i + 1], "title"),
             Get(Rows(current_arg)[i + 1], "title"))

\* a record at rows[i].title, or a removed or added element of rows
TitleReported(i) ==
    \E k \in 1..Len(returned) :
        \/ returned[k].path = RowFieldPath(i, "title")
        \/ /\ returned[k].kind \in {"ListItemRemoved", "ListItemAdded"}
           /\ \E j \in 0..MaxLen : returned[k].path = PatIdx("rows", j)

\* C4: with exclude_fields = {"rows[*].link"} no record is located at a
\* rows[i].link, and a difference between the titles of rows[i] is still
\* reported
C4_WildcardLinkOnly ==
    (pc = "returned" /\ exclude_arg = RowsLink /\ flags.check_value)
        => /\ \A k \in 1..Len(returned) : \A i \in 0..MaxLen :
                 returned[k].path # RowFieldPath(i, "link")
           /\ \A i \in 0..MaxLen : TitleDiffers(i) => TitleReported(i)

---------------------------------------------------------------------------
(* Lists: a map whose field l is a list of scalars and maps *)

PermLen == 3

ListElems ==
    {One, VStr(<<"1">>), VList(<<>>), VDict(<<>>), VDict(<< <<"a", One>> >>)}

Perms(n) == {f \in [1..n -> 1..n] : \A i, j \in 1..n : f[i] = f[j] => i = j}

Permute(L, f) == [i \in 1..Len(L) |-> L[f[i]]]

\* the lists of n elements of S without a repeated element
InjSeqs(S, n) == {L \in [1..n -> S] : \A i, j \in 1..n : L[i] = L[j] => i = j}

UnderL(L) == VDict(<< <<"l", VList(L)>> >>)

\* every pair of short lists, the longer lists against their permutations,
\* and a pair of scalar roots, which is refused
ListPairs ==
    {<<UnderL(L1), UnderL(L2)>> : L1, L2 \in SeqsUpTo(ListElems, MaxLen)}
        \cup {<<UnderL(L), UnderL(Permute(L, f))>> :
                 L \in InjSeqs(ListElems, PermLen), f \in Perms(PermLen)}
        \cup {<<One, One>>}

\* check_value is set: the lists go to _compare_lists_native
ListFlags ==
    {f \in AllFlags : f.check_value /\ f.check_missing /\ ~f.check_redundant}

ListExcludes == {NoArg, <<"set", {PatIdx("l", 1)}>>}

ListConfigs ==
    {NoArg, Cfg("True", <<StrInt>>), Cfg("False", <<>>), Cfg("False", <<StrInt>>)}

InitLists == InitOn(ListPairs, ListFlags, ListExcludes, ListConfigs)

SpecLists == InitLists /\ [][Next]_vars

\* the two lists of a returned call
OriginL == Get(origin_arg, "l")[2]
CurrentL == Get(current_arg, "l")[2]

ListsCompared == pc = "returned" /\ type(origin_arg) = "dict"

IsPermutation(L, P) ==
    Len(L) = Len(P) /\ \E f \in Perms(Len(L)) : P = Permute(L, f)

\* no element of L matches another one, as _items_match sees them in this call
PairwiseNonMatching(L) ==
    \A i, j \in 1..Len(L) :
        i # j => ~_items_match(L[i], L[j], flags.check_type, eff_config)

\* C5: in the order-insensitive mode, a list of pairwise non-matching scalars
\* and maps compared with a permutation of itself returns no record
C5_PermutationInvariant ==
    (/\ ListsCompared
     /\ flags.check_value
     /\ IgnoreOrder(eff_config)
     /\ IsPermutation(OriginL, CurrentL)
     /\ PairwiseNonMatching(OriginL))
        => returned = <<>>

\* [1, {}, {a: 1}] against [{a: 1}, 1, {}] under the default config
C5_Witness ==
    /\ ListsCompared
    /\ flags.check_value
    /\ config_arg = NoArg
    /\ OriginL = <<One, VDict(<<>>), VDict(<< <<"a", One>> >>)>>
    /\ CurrentL = <<VDict(<< <<"a", One>> >>), One, VDict(<<>>)>>
    /\ PairwiseNonMatching(OriginL)
    /\ returned = <<>>

\* the path of the element of l at index i
ElemPath(i) == PatIdx("l", i)

\* the path is l[i], or lies below it
AtIndex(path, i) ==
    /\ path[1][1] = "l"
    /\ Len(path[1][2]) >= 1
    /\ path[1][2][1] = i

\* the returned records at or below l[i], in their order
RecordsAt(i) == SelectSeq(returned, LAMBDA r : AtIndex(r.path, i))

ExcludedIndex(i) == _should_exclude(ElemPath(i), eff_exclude[2])

\* what comparing origin[i] with current[i] alone gives (lines 347-397)
ElementDiff(i) ==
    IF IsContainer(OriginL[i + 1]) /\ IsContainer(CurrentL[i + 1])
    THEN compare_structures(OriginL[i + 1], CurrentL[i + 1], ElemPath(i),
             NestedListOpt(flags.check_type, eff_exclude, eff_config)).diffs
    ELSE ScalarItemStep(OriginL[i + 1], CurrentL[i + 1], ElemPath(i),
                        flags.check_type, eff_config, <<>>)

OrderedCompared ==
    ListsCompared /\ flags.check_value /\ ~IgnoreOrder(eff_config)

MaxIndex == IF Len(OriginL) > Len(CurrentL) THEN Len(OriginL) ELSE Len(CurrentL)

\* the pairing by index of the order-sensitive mode
PairedByIndex ==
    /\ \A k \in 1..Len(returned) : \E i \in 0..(MaxIndex - 1) :
          AtIndex(returned[k].path, i)
    /\ \A i \in 0..(MaxIndex - 1) :
          RecordsAt(i) =
              IF ExcludedIndex(i) THEN <<>>
              ELSE IF i >= Len(OriginL)
              THEN <<Rec("ListItemAdded", ElemPath(i), NA, NA)>>
              ELSE IF i >= Len(CurrentL)
              THEN <<Rec("ListItemRemoved", ElemPath(i), NA, NA)>>
              ELSE ElementDiff(i)

\* two elements are distinct as Python compares them
Distinct(a, b) ==
    IF IsContainer(a) \/ IsContainer(b) THEN a # b ELSE ~PyEq(a, b)

PairwiseDistinct(L) == \A i, j \in 1..Len(L) : i # j => Distinct(L[i], L[j])

\* current is origin in another order
Reordered ==
    /\ IsPermutation(OriginL, CurrentL)
    /\ OriginL # CurrentL
    /\ PairwiseDistinct(OriginL)

MovedIndex(i) == i < Len(OriginL) /\ OriginL[i + 1] # CurrentL[i + 1]

\* some record is returned, and every record is at or below a moved index
ShiftReported ==
    /\ returned # <<>>
    /\ \A k \in 1..Len(returned) : \E i \in 0..(MaxIndex - 1) :
          MovedIndex(i) /\ AtIndex(returned[k].path, i)

\* C6: the order-sensitive mode pairs the elements by index, reports the
\* indices beyond one side as added or removed, skips the excluded indices;
\* hence a reordered list of pairwise-distinct elements gives records at the
\* shifted indices
C6_OrderedAsClaimed ==
    OrderedCompared => (PairedByIndex /\ (Reordered => ShiftReported))

\* C6, as the code has it: the same, the reordered list giving records when
\* check_type is set, no type group is configured and no index is excluded
C6_OrderedByIndex ==
    OrderedCompared
        => /\ PairedByIndex
           /\ (/\ Reordered
               /\ flags.check_type
               /\ TypeGroups(eff_config) = <<>>
               /\ \A i \in 0..(MaxIndex - 1) : ~ExcludedIndex(i))
                  => ShiftReported

\* [1, {}] against [{}, 1]: a type conflict at l[0] and one at l[1]
C6_Witness ==
    /\ OrderedCompared
    /\ OriginL = <<One, VDict(<<>>)>>
    /\ CurrentL = <<VDict(<<>>), One>>
    /\ flags.check_type
    /\ exclude_arg = NoArg
    /\ KindsOf(returned) = {"TypeConflict"}
    /\ Len(returned) = 2

---------------------------------------------------------------------------
(* Scalars: a map with one scalar field v *)

ScalarValues ==
    {VNone, VInt(0), One, VInt(10),
     EmptyStr, VStr(<<"0">>), VStr(<<"1">>), VStr(<<"0", "1">>), VStr(<<"1", "0">>),
     StrA}

UnderV(x) == VDict(<< <<"v", x>> >>)

ScalarPairs ==
    {<<UnderV(x), UnderV(y)>> : x, y \in ScalarValues} \cup {<<One, One>>}

\* no group, a group with str and int, a group without str
ScalarConfigs ==
    {NoArg, Cfg("unset", <<StrInt>>), Cfg("False", <<{"str", "int", "float"}>>),
     Cfg("unset", <<{"int", "float"}>>)}

InitScalars == InitOn(ScalarPairs, AllFlags, {NoArg}, ScalarConfigs)

SpecScalars == InitScalars /\ [][Next]_vars

\* the two values of the field v of a returned call
OriginV == Get(origin_arg, "v")
CurrentV == Get(current_arg, "v")

ScalarsCompared == pc = "returned" /\ type(origin_arg) = "dict"

\* s is a digit-only string and n the integer it denotes
Denotes(s, n) ==
    type(s) = "str" /\ type(n) = "int" /\ isdigit(s[2]) /\ ParseDigits(s[2]) = n[2]

\* a digit-only string against its integer, or "" against 0, in either order
StrIntTwins(x, y) ==
    \/ Denotes(x, y) \/ Denotes(y, x)
    \/ (x = EmptyStr /\ y = VInt(0)) \/ (x = VInt(0) /\ y = EmptyStr)

\* a configured type group holds both str and int
StrIntGrouped(config) ==
    \E g \in 1..Len(TypeGroups(config)) : StrInt \subseteq TypeGroups(config)[g]

\* C7: a digit-only string against the integer it denotes, or "" against 0,
\* under a map field gives no record when a type group holds str and int;
\* with no type group and check_type set it gives one TypeConflict and no
\* ValueChanged (check_value being set, as by default)
C7_TypeGroupEquivalence ==
    (ScalarsCompared /\ StrIntTwins(OriginV, CurrentV))
        => /\ StrIntGrouped(eff_config) => returned = <<>>
           /\ (/\ TypeGroups(eff_config) = <<>>
               /\ flags.check_type
               /\ flags.check_value)
                  => (Len(returned) = 1 /\ returned[1].kind = "TypeConflict")

\* {v: "01"} against {v: 1} under the group (str, int): no record
C7_Witness ==
    /\ ScalarsCompared
    /\ OriginV = VStr(<<"0", "1">>)
    /\ CurrentV = One
    /\ flags.check_value
    /\ flags.check_type
    /\ config_arg = Cfg("unset", <<StrInt>>)
    /\ returned = <<>>

---------------------------------------------------------------------------
(* Roots: scalars, nulls and containers in every combination *)

\* a root map whose only field, named k, holds a scalar, a null or a container
RootMaps(k) ==
    DictsOn(<<k>>, {One, VNone, VList(<<One>>), VDict(<<>>), VDict(<< <<"a", One>> >>)})

RootValues ==
    {VNone, One, StrA, VList(<<>>), VList(<<One>>), VDict(<<>>)}
        \cup RootMaps("a") \cup RootMaps("")

RootExcludes == {NoArg, <<"set", {}>>, <<"set", {Pat1("x")}>>}

RootConfigs == {NoArg, Cfg("unset", <<>>), Cfg("unset", <<StrInt>>), Cfg("False", <<>>)}

InitRoots == InitOn(RootValues \X RootValues, AllFlags, RootExcludes, RootConfigs)

SpecRoots == InitRoots /\ [][Next]_vars

\* line 704: either root is neither a dict nor a list
ScalarRoot == ~IsContainer(origin_arg) \/ ~IsContainer(current_arg)

\* C8: the call fails with ValueError, returning no record, when either root
\* is a scalar or null, and does not fail when both roots are maps or sequences
C8_InvalidInputOnlyForRoots ==
    Done => /\ (pc = "raised") <=> ScalarRoot
            /\ pc = "raised" => returned = <<>>

---------------------------------------------------------------------------
(* Nesting: containers inside containers *)

NestDepth == 3

\* a map field or a list element holding x
Wrap(x) == {VDict(<< <<"a", x>> >>), VList(<<x>>)}

\* the values that nest n containers at most
RECURSIVE Level(_)
Level(n) ==
    IF n = 0 THEN {One, VNone}
    ELSE Level(n - 1) \cup {VDict(<<>>)} \cup UNION {Wrap(x) : x \in Level(n - 1)}

NestFlags == {f \in AllFlags : f.check_missing /\ f.check_type}

InitNested ==
    InitOn(Level(NestDepth) \X Level(NestDepth), NestFlags, {NoArg},
           {NoArg, Cfg("False", <<>>)})

SpecNested == InitNested /\ [][Next]_vars

\* the values directly inside a container
Children(v) ==
    IF type(v) = "dict" THEN {v[2][i][2] : i \in 1..Len(v[2])}
    ELSE {v[2][i] : i \in 1..Len(v[2])}

\* the number of containers nested in v: the depth the recursion reaches
RECURSIVE Depth(_)
Depth(v) ==
    IF ~IsContainer(v) THEN 0
    ELSE 1 + (CHOOSE m \in 0..NestDepth + 1 :
                 /\ \A c \in Children(v) : Depth(c) <= m
                 /\ m = 0 \/ \E c \in Children(v) : Depth(c) = m)

\* a maximum depth a caller would configure
DepthLimit == 2

\* C10: when both trees nest deeper than the maximum depth, the call fails
\* and returns no record
C10_DepthGuarded ==
    (Done /\ Depth(origin_arg) > DepthLimit /\ Depth(current_arg) > DepthLimit)
        => (pc = "raised" /\ returned = <<>>)

---------------------------------------------------------------------------
(* Leaves: a map {name, age} whose field age holds a scalar or a null *)

Blank == VStr(<<" ">>)

\* null, both booleans, integers below, at and above zero, the floats 1.0 and
\* 1.5, empty, blank, numeric and other strings
LeafValues ==
    {VNone, VBool(TRUE), VBool(FALSE), VInt(-1), VInt(0), One, VInt(25), VInt(26),
     VFloat(10, 1), VFloat(15, 1), EmptyStr, Blank, VStr(<<"1">>), StrA, StrB}

Person(age) == VDict(<< <<"name", StrA>>, <<"age", age>> >>)

LeafPairs ==
    {<<Person(x), Person(y)>> : x \in LeafValues, y \in LeafValues} \cup {<<One, One>>}

LeafExcludes == {NoArg, <<"set", {Pat1("age")}>>}

LeafConfigs ==
    {NoArg, Cfg("unset", <<StrInt>>), Cfg("False", <<{"int", "bool"}>>),
     Cfg("unset", <<{"int", "str", "float", "bool"}>>)}

InitLeaves == InitOn(LeafPairs, AllFlags, LeafExcludes, LeafConfigs)

SpecLeaves == InitLeaves /\ [][Next]_vars

OriginAge == Get(origin_arg, "age")
CurrentAge == Get(current_arg, "age")

AgePath == Pat1("age")

\* a returned call on two maps whose field age is not excluded
AgeCompared ==
    /\ pc = "returned"
    /\ type(origin_arg) = "dict"
    /\ ~_should_exclude(AgePath, eff_exclude[2])

\* the result is exactly one record of the kind given, at age
OneRecord(kind) ==
    Len(returned) = 1 /\ returned[1].kind = kind /\ returned[1].path = AgePath

\* the tags differ and no type group holds both
TagsConflict(x, y, config) ==
    type(x) # type(y) /\ ~InSameGroup(x, y, TypeGroups(config))

\* C13: with check_value a non-excluded scalar map field yields no record when
\* the values are equivalent under the type groups; otherwise one TypeConflict
\* when check_type is set and no group unifies the tags; otherwise one
\* ValueChanged when the values differ under Python's ==, in which True is 1,
\* False is 0 and 1 is 1.0, and no record when they do not
C13_LeafClassification ==
    (AgeCompared /\ flags.check_value)
        => IF _is_equivalent_value(OriginAge, CurrentAge, eff_config)
           THEN returned = <<>>
           ELSE IF flags.check_type /\ TagsConflict(OriginAge, CurrentAge, eff_config)
           THEN OneRecord("TypeConflict")
           ELSE IF ~PyEq(OriginAge, CurrentAge)
           THEN OneRecord("ValueChanged")
           ELSE returned = <<>>

\* the classification of C13 with "unequal" read on the tagged values: a
\* boolean never equals an integer, nor an integer a float
C13_LeafClassifiedByTag ==
    (AgeCompared /\ flags.check_value)
        => IF _is_equivalent_value(OriginAge, CurrentAge, eff_config)
           THEN returned = <<>>
           ELSE IF flags.check_type /\ TagsConflict(OriginAge, CurrentAge, eff_config)
           THEN OneRecord("TypeConflict")
           ELSE IF OriginAge # CurrentAge
           THEN OneRecord("ValueChanged")
           ELSE returned = <<>>

\* {name: "a", age: 25} against {name: "a", age: 26} under the defaults
C13_Witness ==
    /\ AgeCompared
    /\ flags = DefaultFlags
    /\ config_arg = NoArg
    /\ OriginAge = VInt(25)
    /\ CurrentAge = VInt(26)
    /\ OneRecord("ValueChanged")

---------------------------------------------------------------------------
(* Order-insensitive lists: the records of the unmatched elements *)

UnorderedCompared ==
    /\ ListsCompared
    /\ flags.check_value
    /\ IgnoreOrder(eff_config)
    /\ exclude_arg = NoArg

\* lines 234-247: origin_matched of this call; position i holds the current
\* position bound to origin[i], 0 when origin[i] is left unmatched
Matched ==
    MatchLoop(Get(origin_arg, "l"), Get(current_arg, "l"),
              flags.check_type, eff_config, 1, <<>>)

MatchedCurrent == {Matched[i] : i \in 1..Len(Matched)} \ {0}

\* the positions in the result of the records of one kind
RecordsOfKind(kind) == {k \in 1..Len(returned) : returned[k].kind = kind}

\* the positions in the result of the records of one kind at l[i]
RecordsOfKindAt(kind, i) ==
    {k \in RecordsOfKind(kind) : returned[k].path = ElemPath(i)}

\* C14: in order-insensitive mode without exclusions an unmatched origin
\* element has exactly one ListItemRemoved at its own origin index, an unmatched
\* current element exactly one ListItemAdded at its own current index, a matched
\* element neither; the numbers of records are the lengths less the matched pairs
C14_UnmatchedReported ==
    UnorderedCompared =>
        /\ \A i \in 1..Len(OriginL) :
              Cardinality(RecordsOfKindAt("ListItemRemoved", i - 1))
                  = IF Matched[i] = 0 THEN 1 ELSE 0
        /\ \A j \in 1..Len(CurrentL) :
              Cardinality(RecordsOfKindAt("ListItemAdded", j - 1))
                  = IF j \in MatchedCurrent THEN 0 ELSE 1
        /\ Cardinality(RecordsOfKind("ListItemRemoved"))
              = Len(OriginL) - Cardinality(MatchedCurrent)
        /\ Cardinality(RecordsOfKind("ListItemAdded"))
              = Len(CurrentL) - Cardinality(MatchedCurrent)

\* {l: [1, {}]} against {l: [{}, "1"]}: 1 is removed at l[0], "1" added at l[1]
C14_Witness ==
    /\ UnorderedCompared
    /\ config_arg = NoArg
    /\ flags.check_type
    /\ OriginL = <<One, VDict(<<>>)>>
    /\ CurrentL = <<VDict(<<>>), VStr(<<"1">>)>>
    /\ Len(returned) = 2
    /\ returned[1].kind = "ListItemRemoved" /\ returned[1].path = ElemPath(0)
    /\ returned[2].kind = "ListItemAdded" /\ returned[2].path = ElemPath(1)

\* C15: a null against a present value gives one MissingField when origin is
\* the null and check_missing is set, one RedundantField when current is the
\* null and check_redundant is set, and nothing otherwise; two nulls give
\* nothing; no TypeConflict or ValueChanged is given for such a pair
C15_NullDispatch ==
    AgeCompared =>
        /\ (OriginAge = VNone /\ CurrentAge # VNone)
              => IF flags.check_missing THEN OneRecord("MissingField")
                 ELSE returned = <<>>
        /\ (OriginAge # VNone /\ CurrentAge = VNone)
              => IF flags.check_redundant THEN OneRecord("RedundantField")
                 ELSE returned = <<>>
        /\ (OriginAge = VNone /\ CurrentAge = VNone) => returned = <<>>

\* C16: with check_type, two present values whose tags differ and are unified
\* by no type group give exactly one TypeConflict at their location, whether
\* check_value is set or not
C16_TypeConflictAnyCheckValue ==
    (/\ AgeCompared
     /\ flags.check_type
     /\ OriginAge # VNone /\ CurrentAge # VNone
     /\ TagsConflict(OriginAge, CurrentAge, eff_config))
        => OneRecord("TypeConflict")

\* a non-blank origin string against a blank current string
Emptied(x, y) ==
    type(x) = "str" /\ type(y) = "str" /\ strip(x[2]) # <<>> /\ strip(y[2]) = <<>>

\* two integers, booleans not counted, that differ, the current one <= 0
NonPositive(x, y) ==
    type(x) = "int" /\ type(y) = "int" /\ x[2] # y[2] /\ y[2] <= 0

\* C17: with check_value false a non-excluded scalar map field has a
\* ValueChanged record exactly when a non-blank string became blank or an
\* integer (not a boolean) changed to one <= 0
C17_SpecialValueOnly ==
    (AgeCompared /\ ~flags.check_value)
        => (RecordsOfKind("ValueChanged") # {}
               <=> (Emptied(OriginAge, CurrentAge) \/ NonPositive(OriginAge, CurrentAge)))

---------------------------------------------------------------------------
(* Lists of scalars that the equivalence engine identifies *)

EquivElems == {EmptyStr, VInt(0), One, VStr(<<"1">>), VStr(<<"0", "1">>)}

EquivListPairs ==
    {<<UnderL(L1), UnderL(L2)>> : L1, L2 \in SeqsUpTo(EquivElems, MaxLen)}
        \cup {<<One, One>>}

EquivListFlags == {f \in AllFlags : f.check_missing /\ ~f.check_redundant}

EquivListConfigs ==
    {NoArg, Cfg("unset", <<StrInt>>), Cfg("True", <<StrInt>>), Cfg("False", <<StrInt>>)}

InitEquivLists == InitOn(EquivListPairs, EquivListFlags, {NoArg}, EquivListConfigs)

SpecEquivLists == InitEquivLists /\ [][Next]_vars

\* C18: in order-insensitive mode a scalar list element is matched with the
\* element the equivalence engine treats as equal to it: {l: [x]} against
\* {l: [y]} with x and y equivalent under a type group returns no record
C18_MatcherUsesEquivalence ==
    (/\ UnorderedCompared
     /\ Len(OriginL) = 1 /\ Len(CurrentL) = 1
     /\ _is_equivalent_value(OriginL[1], CurrentL[1], eff_config))
        => returned = <<>>

---------------------------------------------------------------------------
(* The path matcher on the wildcard patterns *)

RowsAny == <<"set", {PatIdx("rows", -1)}>>

\* the indices of the elements of rows, on either side
RowIndices ==
    {i \in 0..(MaxLen - 1) :
        i < Len(Rows(origin_arg)) \/ i < Len(Rows(current_arg))}

\* C19: a pattern part field[*] matches the path part field[i] for every
\* index i: _should_exclude holds of rows[i].link under the pattern
\* rows[*].link and of rows[i] under the pattern rows[*]
C19_WildcardAnyIndex ==
    (pc = "returned" /\ type(origin_arg) = "dict")
        => \A i \in RowIndices :
              /\ exclude_arg = RowsLink
                    => _should_exclude(RowFieldPath(i, "link"), eff_exclude[2])
              /\ exclude_arg = RowsAny
                    => _should_exclude(PatIdx("rows", i), eff_exclude[2])

---------------------------------------------------------------------------
(* Nested literal exclusion: a map {user: {name, profile: {avatar}}} *)

Profiles == {One, VDict(<<>>)} \cup DictsOn(<<"avatar">>, {StrA, StrB})

Users ==
    {One}
        \cup DictsOn(<<"name">>, {StrA, StrB})
        \cup {VDict(<< <<"name", n>>, <<"profile", p>> >>) :
                 n \in {StrA, StrB}, p \in Profiles}

UserValues == {One, VDict(<<>>)} \cup DictsOn(<<"user">>, Users)

UserProfile == <<"set", {Pat2("user", "profile")}>>

InitUsers ==
    InitOn(UserValues \X UserValues, AllFlags, {NoArg, UserProfile}, {NoArg})

SpecUsers == InitUsers /\ [][Next]_vars

UsersCompared == pc = "returned" /\ type(origin_arg) = "dict"

\* the positions in the result of the records of one kind at the path given
RecordsOfKindOn(kind, path) ==
    {k \in RecordsOfKind(kind) : returned[k].path = path}

\* both sides hold a map under user, with two different names
NameDiffers ==
    /\ HasKey(origin_arg, "user") /\ HasKey(current_arg, "user")
    /\ type(Get(origin_arg, "user")) = "dict"
    /\ type(Get(current_arg, "user")) = "dict"
    /\ Get(Get(origin_arg, "user"), "name") # Get(Get(current_arg, "user"), "name")

\* origin holds a map under user, current a scalar
UserTypeChanged ==
    /\ HasKey(origin_arg, "user") /\ HasKey(current_arg, "user")
    /\ type(Get(origin_arg, "user")) = "dict"
    /\ type(Get(current_arg, "user")) = "int"

\* the differences outside user.profile are reported
OutsideReported ==
    /\ (NameDiffers /\ flags.check_value)
          => RecordsOfKindOn("ValueChanged", Pat2("user", "name")) # {}
    /\ (HasKey(origin_arg, "user") /\ ~HasKey(current_arg, "user")
           /\ flags.check_missing)
          => RecordsOfKindOn("MissingField", Pat1("user")) # {}
    /\ (UserTypeChanged /\ flags.check_type)
          => RecordsOfKindOn("TypeConflict", Pat1("user")) # {}

\* C20: under the exclude pattern user.profile no record lies at user.profile
\* or below, while a difference at user.name and a missing or type-changed
\* user are still reported
C20_NestedLiteralExclusion ==
    (UsersCompared /\ exclude_arg = UserProfile)
        => /\ \A k \in 1..Len(returned) :
                 ~Inside(returned[k].path, Pat2("user", "profile"))
           /\ OutsideReported

---------------------------------------------------------------------------
(* Order-insensitive lists: the binding of the greedy pass *)

\* origin[i] and current[j] match, as _items_match sees them in this call
ItemsMatch(i, j) ==
    _items_match(OriginL[i], CurrentL[j], flags.check_type, eff_config)

\* the current positions bound to the origin positions before i
BoundBefore(i) == {Matched[k] : k \in 1..(i - 1)} \ {0}

\* C21: each origin element, in index order, is bound to the lowest-index
\* current element that matches it and is not bound yet, and to none when there
\* is no such element; no current element is bound to two origin elements
C21_GreedyFirstFit ==
    UnorderedCompared =>
        /\ Len(Matched) = Len(OriginL)
        /\ \A i \in 1..Len(OriginL) :
              /\ Matched[i] \in 0..Len(CurrentL)
              /\ Matched[i] # 0 =>
                    /\ ItemsMatch(i, Matched[i])
                    /\ Matched[i] \notin BoundBefore(i)
                    /\ \A j \in 1..(Matched[i] - 1) :
                          ItemsMatch(i, j) => j \in BoundBefore(i)
              /\ Matched[i] = 0 =>
                    \A j \in 1..Len(CurrentL) :
                        ItemsMatch(i, j) => j \in BoundBefore(i)
        /\ \A i, k \in 1..Len(OriginL) :
              (i # k /\ Matched[i] # 0) => Matched[i] # Matched[k]

\* {l: [1]} against {l: [1, 1]}: the earlier 1 is claimed, the later one added
C21_Witness ==
    /\ UnorderedCompared
    /\ OriginL = <<One>>
    /\ CurrentL = <<One, One>>
    /\ Matched = <<1>>
    /\ Len(returned) = 1
    /\ returned[1].kind = "ListItemAdded"
    /\ returned[1].path = ElemPath(1)

---------------------------------------------------------------------------
(* The built-in exclude set: a map {go_article_service, a} *)

Service == "go_article_service"

ServiceMaps ==
    {VDict(<< <<Service, s>>, <<"a", x>> >>) :
        s \in {One, StrA, VDict(<<>>)}, x \in {One, StrA}}

EmptySet == <<"set", {}>>

ServiceExcludes == {NoArg, EmptySet, <<"set", {Pat1("a")}>>}

InitService ==
    InitOn((ServiceMaps \X ServiceMaps) \cup {<<One, One>>}, AllFlags,
           ServiceExcludes, {NoArg})

SpecService == InitService /\ [][Next]_vars

\* a returned call on two maps whose values under go_article_service differ
ServiceDiffers ==
    /\ pc = "returned"
    /\ type(origin_arg) = "dict"
    /\ Get(origin_arg, Service) # Get(current_arg, Service)

\* C22: the built-in set {"go_article_service"} is the exclude set of the call
\* exactly when the caller passes none; when the caller passes a set, the empty
\* set included, the caller's set is used as it is, and a difference under
\* go_article_service is reported
C22_BuiltInExcludeOnlyByDefault ==
    pc = "returned" =>
        /\ (exclude_arg = NoArg) => eff_exclude = DefaultExclude
        /\ (exclude_arg # NoArg) => eff_exclude = exclude_arg
        /\ (ServiceDiffers /\ exclude_arg # NoArg /\ flags.check_value /\ flags.check_type)
              => RecordsUnder(Service) # {}
        /\ (ServiceDiffers /\ exclude_arg = NoArg) => RecordsUnder(Service) = {}

---------------------------------------------------------------------------
(* Order-insensitive lists whose elements differ in a nested leaf *)

A(x) == VDict(<< <<"a", x>> >>)

\* 1 and True, equal under ==; maps that differ in the leaf a, or in an
\* element of the list under a
DeepElems ==
    {One, VBool(TRUE), A(One), A(VInt(2)), A(VList(<<One>>)), A(VList(<<VInt(2)>>))}

DeepListPairs ==
    {<<UnderL(L1), UnderL(L2)>> : L1, L2 \in SeqsUpTo(DeepElems, MaxLen)}
        \cup {<<One, One>>}

DeepListFlags ==
    {f \in AllFlags : f.check_value /\ f.check_missing /\ ~f.check_redundant}

InitDeepLists ==
    InitOn(DeepListPairs, DeepListFlags, {NoArg}, {NoArg, Cfg("False", <<>>)})

SpecDeepLists == InitDeepLists /\ [][Next]_vars

\* x == y of Python on whole values; a dict equals a dict of the same keys and
\* equal values, whatever the order of the keys
RECURSIVE DeepEq(_, _)
DeepEq(x, y) ==
    IF type(x) = "list" /\ type(y) = "list"
    THEN /\ Len(x[2]) = Len(y[2])
         /\ \A i \in 1..Len(x[2]) : DeepEq(x[2][i], y[2][i])
    ELSE IF type(x) = "dict" /\ type(y) = "dict"
    THEN /\ Len(x[2]) = Len(y[2])
         /\ \A i \in 1..Len(x[2]) :
               /\ HasKey(y, x[2][i][1])
               /\ DeepEq(x[2][i][2], Get(y, x[2][i][1]))
    ELSE IF IsContainer(x) \/ IsContainer(y) THEN FALSE
    ELSE PyEq(x, y)

\* lines 272-334: what the re-comparison of origin[i] with current[j] gives
PairDiff(i, j) ==
    IF IsContainer(OriginL[i]) /\ IsContainer(CurrentL[j])
    THEN compare_structures(OriginL[i], CurrentL[j], ElemPath(i - 1),
             NestedListOpt(flags.check_type, eff_exclude, eff_config)).diffs
    ELSE ScalarItemStep(OriginL[i], CurrentL[j], ElemPath(i - 1),
                        flags.check_type, eff_config, <<>>)

\* C23: in order-insensitive mode without type groups two bound elements are
\* deeply equal and their re-comparison gives no record; every record is a
\* ListItemRemoved or ListItemAdded at an index of the list, none lies at a
\* nested path
C23_MatchedPairsSilent ==
    (UnorderedCompared /\ TypeGroups(eff_config) = <<>>)
        => /\ \A i \in 1..Len(OriginL) :
                 Matched[i] # 0 =>
                    /\ DeepEq(OriginL[i], CurrentL[Matched[i]])
                    /\ PairDiff(i, Matched[i]) = <<>>
           /\ \A k \in 1..Len(returned) :
                 /\ returned[k].kind \in {"ListItemRemoved", "ListItemAdded"}
                 /\ \E i \in 0..(MaxIndex - 1) : returned[k].path = ElemPath(i)

\* {l: [{a: 1}]} against {l: [{a: 2}]}: the element is removed and added at
\* l[0], the leaf l[0].a is not reported
C23_Witness ==
    /\ UnorderedCompared
    /\ OriginL = <<A(One)>>
    /\ CurrentL = <<A(VInt(2))>>
    /\ Len(returned) = 2
    /\ returned[1].kind = "ListItemRemoved" /\ returned[1].path = ElemPath(0)
    /\ returned[2].kind = "ListItemAdded" /\ returned[2].path = ElemPath(0)

\* C24: under the default flags and without type groups a non-null origin value
\* against a null current value at a map field that is not excluded gives at
\* least one record for that field, whether the origin value is a scalar, a
\* map or a sequence
C24_NullCurrentReported ==
    (/\ pc = "returned"
     /\ flags = DefaultFlags
     /\ type(origin_arg) = "dict" /\ type(current_arg) = "dict"
     /\ HasKey(origin_arg, "m") /\ HasKey(current_arg, "m")
     /\ Get(origin_arg, "m") # VNone
     /\ Get(current_arg, "m") = VNone)
        => RecordsUnder("m") # {}

\* C25: when both roots are maps or sequences the call returns: a mismatch of a
\* container with a scalar or a null deeper in the trees raises no error, also
\* under a field whose name is the empty string
C25_NestedMismatchNeverRaises ==
    (Done /\ IsContainer(origin_arg) /\ IsContainer(current_arg))
        => pc = "returned"

====
